---- MODULE Spec2Model ----
(***************************************************************************)
(* Model of main.py: the Socket.IO notification relay.                     *)
(*                                                                         *)
(* Three kinds of coroutine run on one asyncio event loop:                 *)
(*   - lifespan(app): startup, then on exit the shutdown sequence          *)
(*     (flag, drain loop, forced disconnects, broadcaster cancel/await);   *)
(*   - broadcaster(): the periodic notification loop;                      *)
(*   - the event handlers connect / disconnect / message.                  *)
(* A coroutine runs atomically between two awaits, so each action below    *)
(* is the code between two suspension points.  Time is a monotonic clock   *)
(* in seconds; asyncio.sleep(d) resumes at some time >= d later, and the   *)
(* event loop resumes the sleep that is due first.  The clock is read      *)
(* when a task resumes; handlers run at the current reading.               *)
(***************************************************************************)
EXTENDS Integers, Sequences, FiniteSets

\* ------------------------------------------------------------------ bounds
\* Connection ids the transport hands to the handlers.
Sids == {"s1", "s2"}
\* Payloads of message events.
Payloads == {"p1"}
\* Number of transport events (connect/disconnect/message) in one run that
\* goes through shutdown.
MaxEvents == 2
\* Number of transport events in one run of the application that keeps running.
MaxCalls == 4
\* Latest clock reading at which the shutdown trigger arrives.
MaxStart == 10
\* Delay, in seconds, of a task that resumes late from a sleep that is due.
MaxJitter == 1
\* Grace period in seconds.  main.py sets 30 * 60; the drain loop is the
\* same for any value, and it is checked here for a short period.
MAX_GRACE_PERIOD == 10

\* ------------------------------------------------------- program constants
\* await asyncio.sleep(5) in the drain loop
POLL_INTERVAL == 5
\* await asyncio.sleep(10) in broadcaster()
BROADCAST_INTERVAL == 10
\* shutdown_start_time = None
NoneTime == -1
\* sio.emit(event, data) without to=: every connected client
NoTarget == "*"
\* the welcome payload
WelcomeMsg == [msg |-> "Welcome! Real-time notifications started"]

VARIABLES
    now,                  \* time.monotonic()
    active_clients,       \* dict sid -> timestamp, in insertion order
    shutdown_requested,   \* global flag
    shutdown_start_time,  \* global, NoneTime until shutdown
    remaining,            \* lifespan local
    lpc,                  \* lifespan position
    lwake,                \* due time of the lifespan's sleep
    pending,              \* rest of list(active_clients) in the for loop
    bpc,                  \* broadcaster position
    counter,              \* broadcaster local
    bwake,                \* due time of the broadcaster's sleep
    cancel_requested,     \* bg_task.cancel() called, not yet delivered
    emits,                \* calls of sio.emit, in order
    sio_disconnects,      \* calls of sio.disconnect, in order
    events,               \* handler invocations, in order
    shutdown_mark,        \* Len(events) when shutdown began
    force_entered_at,     \* clock when the force branch was entered
    force_mark            \* Len(events) when the force branch was entered

vars == <<now, active_clients, shutdown_requested, shutdown_start_time,
          remaining, lpc, lwake, pending, bpc, counter, bwake,
          cancel_requested, emits, sio_disconnects, events, shutdown_mark,
          force_entered_at, force_mark>>

lifespanVars == <<shutdown_requested, shutdown_start_time, remaining, lpc,
                  lwake, pending, cancel_requested, sio_disconnects,
                  shutdown_mark, force_entered_at, force_mark>>
broadcasterVars == <<bpc, counter, bwake>>

\* ------------------------------------------------------------ dict helpers
\* sid in active_clients
Has(d, sid) == \E i \in DOMAIN d : d[i].sid = sid

\* the key set of the dict
Keys(d) == {d[i].sid : i \in DOMAIN d}

\* list(active_clients): keys in insertion order
KeyList(d) == [i \in DOMAIN d |-> d[i].sid]

\* mutant: a repeated key keeps its first timestamp
SetItem_KeepsOldTimestamp(d, sid, t) ==
    IF Has(d, sid) THEN d ELSE Append(d, [sid |-> sid, ts |-> t])

\* mutant: a repeated key is stored again instead of overwritten
SetItem_AlwaysAppends(d, sid, t) == Append(d, [sid |-> sid, ts |-> t])

\* active_clients[sid] = t : overwrite in place, or append a new key
SetItem(d, sid, t) ==
    IF Has(d, sid)
    THEN [i \in DOMAIN d |-> IF d[i].sid = sid THEN [sid |-> sid, ts |-> t] ELSE d[i]]
    ELSE Append(d, [sid |-> sid, ts |-> t])

\* del active_clients[sid]
DelItem(d, sid) == SelectSeq(d, LAMBDA e : e.sid # sid)

\* max(0, x)
Max0(x) == IF x > 0 THEN x ELSE 0

\* ------------------------------------------------------------------- emit
\* who a sio.emit reaches: every connected client, or the one named by to=
Receivers(d, to) == IF to = NoTarget THEN Keys(d) ELSE {to}

\* sio.emit(event, data, to=...) while the clients of d are connected
Emit(log, d, event, data, to) ==
    Append(log, [event |-> event, data |-> data, to |-> to, rcpt |-> Receivers(d, to)])

Init ==
    /\ now = 0
    /\ active_clients = <<>>
    /\ shutdown_requested = FALSE
    /\ shutdown_start_time = NoneTime
    /\ remaining = NoneTime
    /\ lpc = "init"
    /\ lwake = NoneTime
    /\ pending = <<>>
    /\ bpc = "none"
    /\ counter = 0
    /\ bwake = NoneTime
    /\ cancel_requested = FALSE
    /\ emits = <<>>
    /\ sio_disconnects = <<>>
    /\ events = <<>>
    /\ shutdown_mark = NoneTime
    /\ force_entered_at = NoneTime
    /\ force_mark = NoneTime

\* lifespan up to the yield: the broadcaster task is created
Startup ==
    /\ lpc = "init"
    /\ lpc' = "running"
    /\ bpc' = "created"
    /\ UNCHANGED <<now, active_clients, shutdown_requested, shutdown_start_time,
                   remaining, lwake, pending, counter, bwake, cancel_requested,
                   emits, sio_disconnects, events, shutdown_mark, force_entered_at,
                   force_mark>>

\* ------------------------------------------------------------- lifespan
\* the broadcaster coroutine is over (returned or cancelled)
BroadcasterOver == bpc \in {"returned", "cancelled"}

\* mutant: the loop gives up one poll interval before the deadline
ContinueDrain_ExitsEarly(n, rem) == n > 0 /\ rem > POLL_INTERVAL

\* while len(active_clients) > 0 and remaining > 0
ContinueDrain(n, rem) == n > 0 /\ rem > 0

\* mutant: the force branch is taken whenever the loop ends
NeedsForce_Always(n) == n >= 0

\* if len(active_clients) > 0  (after the loop)
NeedsForce(n) == n > 0

\* mutant: the deadline is counted from clock reading 0, not from the
\* start of the shutdown
Remaining_IgnoresStart(t, start) == Max0(MAX_GRACE_PERIOD - t)

\* remaining = max(0, MAX_GRACE_PERIOD - (time.monotonic() - shutdown_start_time))
Remaining(t, start) == Max0(MAX_GRACE_PERIOD - (t - start))

\* mutant: the task is awaited without being cancelled
CancelAndAwait_NoCancel ==
    /\ lpc' = "await_bg"
    /\ cancel_requested' = FALSE

\* bg_task.cancel(); the lifespan then suspends in `await bg_task`
CancelAndAwait ==
    /\ lpc' = "await_bg"
    /\ cancel_requested' = ~BroadcasterOver

\* The code from the loop condition to the lifespan's next suspension point,
\* with `rem` the value of remaining: sleep again, or enter the force branch
\* (the first sio.disconnect is awaited), or log success and cancel the task.
DrainFrom(t, rem) ==
    /\ remaining' = rem
    /\ IF ContinueDrain(Len(active_clients), rem)
       THEN /\ lpc' = "sleeping"
            /\ lwake' = t + POLL_INTERVAL
            /\ UNCHANGED <<pending, force_entered_at, force_mark, cancel_requested>>
       ELSE IF NeedsForce(Len(active_clients))
       THEN /\ lpc' = "force"
            /\ pending' = KeyList(active_clients)
            /\ force_entered_at' = t
            /\ force_mark' = Len(events)
            /\ UNCHANGED <<lwake, cancel_requested>>
       ELSE /\ CancelAndAwait
            /\ UNCHANGED <<lwake, pending, force_entered_at, force_mark>>

\* mutant: the trigger sets the flag but does not record the start time
Shutdown_NoStartTime ==
    /\ lpc = "running"
    /\ shutdown_requested' = TRUE
    /\ shutdown_mark' = Len(events)
    /\ DrainFrom(now, MAX_GRACE_PERIOD)
    /\ UNCHANGED <<now, active_clients, shutdown_start_time, bpc, counter,
                   bwake, emits, sio_disconnects, events>>

\* the shutdown trigger: the finally block up to its first suspension
Shutdown ==
    /\ lpc = "running"
    /\ shutdown_requested' = TRUE
    /\ shutdown_start_time' = now
    /\ shutdown_mark' = Len(events)
    /\ DrainFrom(now, MAX_GRACE_PERIOD)
    /\ UNCHANGED <<now, active_clients, bpc, counter, bwake, emits,
                   sio_disconnects, events>>

\* the clock when a sleep due at w returns, on time or late
WakeTime(w, late) == (IF now > w THEN now ELSE w) + (IF late THEN MaxJitter ELSE 0)

\* asyncio.sleep(5) returns; remaining is recomputed and the loop re-tested
PollWake(late) ==
    /\ lpc = "sleeping"
    /\ bpc = "sleeping" => lwake <= bwake
    /\ now' = WakeTime(lwake, late)
    /\ DrainFrom(now', Remaining(now', shutdown_start_time))
    /\ UNCHANGED <<active_clients, shutdown_requested, shutdown_start_time,
                   bpc, counter, bwake, emits, sio_disconnects, events,
                   shutdown_mark>>

\* the grace period is over at the current clock reading
Expired == shutdown_requested /\ now - shutdown_start_time >= MAX_GRACE_PERIOD

\* The record of one handler invocation: the handler, its arguments, whether
\* the sid was registered when it arrived, whether sio.disconnect ran it, and
\* whether it arrived after the grace period.
Event(op, sid, data, forced) ==
    [op |-> op, sid |-> sid, data |-> data, present |-> Has(active_clients, sid),
     forced |-> forced, expired |-> Expired]

\* the handler record of one disconnect(sid) invocation
DisconnectEvent(sid, forced) == Event("disconnect", sid, "", forced)

\* mutant: a disconnect for a registered sid empties the registry
DisconnectHandler_Clears(d, sid) == IF Has(d, sid) THEN <<>> ELSE d

\* disconnect(sid): if sid in active_clients: del active_clients[sid]
DisconnectHandler(d, sid) == IF Has(d, sid) THEN DelItem(d, sid) ELSE d

\* await sio.disconnect(sid, ignore_queue=True) for the next sid of the
\* snapshot.  The transport closes the connection and runs the disconnect
\* handler when it still knows the sid; or the call raises, and the
\* exception leaves the finally block: the rest of the snapshot (pending)
\* is never visited and bg_task.cancel() is never reached.
ForceDisconnect(ok) ==
    /\ lpc = "force"
    /\ pending # <<>>
    /\ sio_disconnects' = Append(sio_disconnects, Head(pending))
    /\ IF ok
       THEN /\ active_clients' = DisconnectHandler(active_clients, Head(pending))
            /\ events' = IF Has(active_clients, Head(pending))
                         THEN Append(events, DisconnectEvent(Head(pending), TRUE))
                         ELSE events
            /\ pending' = Tail(pending)
            /\ IF Tail(pending) = <<>>
               THEN CancelAndAwait
               ELSE UNCHANGED <<lpc, cancel_requested>>
       ELSE /\ lpc' = "raised"
            /\ pending' = Tail(pending)
            /\ UNCHANGED <<active_clients, events, cancel_requested>>
    /\ UNCHANGED <<now, shutdown_requested, shutdown_start_time, remaining,
                   lwake, bpc, counter, bwake, emits, shutdown_mark,
                   force_entered_at, force_mark>>

\* mutant: the lifespan completes without awaiting the task
LifespanDone_NoAwait ==
    /\ lpc = "await_bg"
    /\ lpc' = "done"
    /\ UNCHANGED <<now, active_clients, shutdown_requested, shutdown_start_time,
                   remaining, lwake, pending, bpc, counter, bwake,
                   cancel_requested, emits, sio_disconnects, events,
                   shutdown_mark, force_entered_at, force_mark>>

\* with suppress(CancelledError): await bg_task  -- returns once the task is over
LifespanDone ==
    /\ lpc = "await_bg"
    /\ BroadcasterOver
    /\ lpc' = "done"
    /\ UNCHANGED <<now, active_clients, shutdown_requested, shutdown_start_time,
                   remaining, lwake, pending, bpc, counter, bwake,
                   cancel_requested, emits, sio_disconnects, events,
                   shutdown_mark, force_entered_at, force_mark>>

\* ----------------------------------------------------------- broadcaster
\* mutant: the payload is built from the counter before its increment
Notification_StaleId(c, t) ==
    [id |-> c - 1, text |-> <<"Server notification #", c - 1>>, time |-> t]

\* the notification payload
Notification(c, t) == [id |-> c, text |-> <<"Server notification #", c>>, time |-> t]

\* mutant: the loop does not look at the flag
StopsOnFlag_Never(flag) == FALSE

\* if shutdown_requested: return
StopsOnFlag(flag) == flag

\* if active_clients:
ShouldEmit(d) == d # <<>>

\* One pass of the loop body from `while True` to the next await: the first
\* pass of a fresh task (counter = 0) or the pass after a sleep.
BroadcasterStep(late) ==
    /\ ~cancel_requested
    /\ \/ /\ bpc = "created"
          /\ ~late
          /\ now' = now
       \/ /\ bpc = "sleeping"
          /\ lpc = "sleeping" => bwake <= lwake
          /\ now' = WakeTime(bwake, late)
          /\ lpc = "running" => now' <= MaxStart
    /\ LET c == IF bpc = "created" THEN 0 ELSE counter IN
       IF StopsOnFlag(shutdown_requested)
       THEN /\ bpc' = "returned"
            /\ counter' = c
            /\ UNCHANGED <<bwake, emits>>
       ELSE IF ShouldEmit(active_clients)
       THEN /\ counter' = c + 1
            /\ emits' = Emit(emits, active_clients, "notification",
                             Notification(c + 1, now'), NoTarget)
            /\ bpc' = "emitting"
            /\ UNCHANGED bwake
       ELSE /\ bpc' = "sleeping"
            /\ bwake' = now' + BROADCAST_INTERVAL
            /\ counter' = c
            /\ UNCHANGED emits
    /\ UNCHANGED <<active_clients, events>>
    /\ UNCHANGED lifespanVars

\* mutant: the broadcaster empties the registry after its emit
BroadcasterEmitDone_TouchesRegistry ==
    /\ ~cancel_requested
    /\ bpc = "emitting"
    /\ bpc' = "sleeping"
    /\ bwake' = now + BROADCAST_INTERVAL
    /\ active_clients' = <<>>
    /\ UNCHANGED <<now, counter, emits, events>>
    /\ UNCHANGED lifespanVars

\* sio.emit returned; logger.debug; await asyncio.sleep(10)
BroadcasterEmitDone ==
    /\ ~cancel_requested
    /\ bpc = "emitting"
    /\ bpc' = "sleeping"
    /\ bwake' = now + BROADCAST_INTERVAL
    /\ UNCHANGED <<now, active_clients, counter, emits, events>>
    /\ UNCHANGED lifespanVars

\* the CancelledError is thrown into the task at its pending await
BroadcasterCancelled ==
    /\ cancel_requested
    /\ ~BroadcasterOver
    /\ bpc' = "cancelled"
    /\ cancel_requested' = FALSE
    /\ UNCHANGED <<now, active_clients, shutdown_requested, shutdown_start_time,
                   remaining, lpc, lwake, pending, counter, bwake, emits,
                   sio_disconnects, events, shutdown_mark, force_entered_at,
                   force_mark>>

\* -------------------------------------------------------- event handlers
\* transport events handled so far (forced disconnects are not counted)
GatewayCount == Cardinality({i \in DOMAIN events : ~events[i].forced})

\* the server dispatches events from startup until the lifespan is over
Serving == lpc \in {"running", "sleeping", "force", "await_bg"}

\* mutant: the welcome is sent to everyone and again to the new client
ConnectEmits_Twice(log, d, sid) ==
    Emit(Emit(log, d, "welcome", WelcomeMsg, NoTarget), d, "welcome", WelcomeMsg, sid)

\* await sio.emit("welcome", {...})
ConnectEmits(log, d, sid) == Emit(log, d, "welcome", WelcomeMsg, NoTarget)

\* mutant: a connect that arrives during shutdown is welcomed but not
\* registered
Connect_IgnoredInShutdown(sid) ==
    /\ Serving
    /\ active_clients' = IF shutdown_requested
                         THEN active_clients
                         ELSE SetItem(active_clients, sid, now)
    /\ emits' = ConnectEmits(emits, active_clients', sid)
    /\ events' = Append(events, Event("connect", sid, "", FALSE))
    /\ UNCHANGED now
    /\ UNCHANGED lifespanVars
    /\ UNCHANGED broadcasterVars

\* connect(sid, environ)
Connect(sid) ==
    /\ Serving
    /\ active_clients' = SetItem(active_clients, sid, now)
    /\ emits' = ConnectEmits(emits, active_clients', sid)
    /\ events' = Append(events, Event("connect", sid, "", FALSE))
    /\ UNCHANGED now
    /\ UNCHANGED lifespanVars
    /\ UNCHANGED broadcasterVars

\* disconnect(sid)
Disconnect(sid) ==
    /\ Serving
    /\ active_clients' = DisconnectHandler(active_clients, sid)
    /\ events' = Append(events, DisconnectEvent(sid, FALSE))
    /\ UNCHANGED <<now, emits>>
    /\ UNCHANGED lifespanVars
    /\ UNCHANGED broadcasterVars

\* mutant: the payload is echoed without its sender
Echo_DataAsSender(sid, data) == [from |-> data, data |-> data]

\* the echo payload {"from": sid, "data": data}
Echo(sid, data) == [from |-> sid, data |-> data]

\* await sio.emit("message", {...})
MessageEmits(log, d, sid, data) == Emit(log, d, "message", Echo(sid, data), NoTarget)

\* message(sid, data)
Message(sid, data) ==
    /\ Serving
    /\ emits' = MessageEmits(emits, active_clients, sid, data)
    /\ events' = Append(events, Event("message", sid, data, FALSE))
    /\ UNCHANGED <<now, active_clients>>
    /\ UNCHANGED lifespanVars
    /\ UNCHANGED broadcasterVars

\* --------------------------------------------------------- specifications
\* The whole application: startup, traffic, the broadcaster, shutdown.
Next ==
    \/ Startup
    \/ Shutdown
    \/ \E late \in BOOLEAN : PollWake(late)
    \/ \E ok \in BOOLEAN : ForceDisconnect(ok)
    \/ LifespanDone
    \/ \E late \in BOOLEAN : BroadcasterStep(late)
    \/ BroadcasterEmitDone
    \/ BroadcasterCancelled
    \/ GatewayCount < MaxEvents /\ \E sid \in Sids : Connect(sid)
    \/ GatewayCount < MaxEvents /\ \E sid \in Sids : Disconnect(sid)
    \/ GatewayCount < MaxEvents /\ \E sid \in Sids, data \in Payloads : Message(sid, data)

Spec == Init /\ [][Next]_vars

\* The event loop resumes every task that is ready: a sleep that is due
\* returns, an awaited call completes, a requested cancellation is
\* delivered.  Nothing obliges the transport or the shutdown trigger.
FairSpec ==
    /\ Spec
    /\ WF_vars(\E late \in BOOLEAN : PollWake(late))
    /\ WF_vars(\E ok \in BOOLEAN : ForceDisconnect(ok))
    /\ WF_vars(LifespanDone)
    /\ WF_vars(\E late \in BOOLEAN : BroadcasterStep(late))
    /\ WF_vars(BroadcasterEmitDone)
    /\ WF_vars(BroadcasterCancelled)

\* The application while it keeps running (no shutdown trigger): longer
\* runs of handler calls interleaved with the broadcaster.
NextRunning ==
    \/ Startup
    \/ \E late \in BOOLEAN : BroadcasterStep(late)
    \/ BroadcasterEmitDone
    \/ GatewayCount < MaxCalls /\ \E sid \in Sids : Connect(sid)
    \/ GatewayCount < MaxCalls /\ \E sid \in Sids : Disconnect(sid)
    \/ GatewayCount < MaxCalls /\ \E sid \in Sids, data \in Payloads : Message(sid, data)

SpecRunning == Init /\ [][NextRunning]_vars

\* ================================================================ claims
Range(sq) == {sq[i] : i \in DOMAIN sq}
NoDuplicates(sq) == \A i, j \in DOMAIN sq : i # j => sq[i] # sq[j]

\* the ids registered after the first n handler invocations
RegisteredAfter(n) ==
    {s \in Sids : \E i \in 1..n :
        /\ events[i].op = "connect" /\ events[i].sid = s
        /\ \A j \in (i + 1)..n : ~(events[j].op = "disconnect" /\ events[j].sid = s)}

\* the ids registered when shutdown began
AtShutdown == RegisteredAfter(shutdown_mark)

\* handler invocations since shutdown began
SinceShutdown == {i \in DOMAIN events : i > shutdown_mark}

\* a client disconnected by itself: the handler ran for a registered sid,
\* and not on behalf of sio.disconnect
Voluntary(e) == e.op = "disconnect" /\ e.present /\ ~e.forced

\* seconds since shutdown began, at clock reading t
Elapsed(t) == t - shutdown_start_time

\* the lifespan is past the drain loop and the force branch
Terminated == lpc \in {"await_bg", "done"}

\* ---------------------------------------------------------------- C1
\* shutdown began with N >= 1 registered connections and none of them has
\* disconnected by itself
StragglersStay ==
    /\ shutdown_requested
    /\ AtShutdown # {}
    /\ \A i \in SinceShutdown : ~(Voluntary(events[i]) /\ events[i].sid \in AtShutdown)

\* C1 as claimed: with N >= 1 connections that never disconnect, the force
\* branch is entered when the elapsed time equals the grace period, and on
\* completion sio.disconnect was called exactly once for each of the N ids.
C1_Original ==
    StragglersStay =>
        /\ force_entered_at # NoneTime => Elapsed(force_entered_at) = MAX_GRACE_PERIOD
        /\ Terminated => /\ Range(sio_disconnects) = AtShutdown
                         /\ Len(sio_disconnects) = Cardinality(AtShutdown)

\* C1 amended: with N >= 1 connections that never disconnect, the drain
\* loop keeps sleeping while the grace period had not expired when the sleep
\* began, and the force branch is entered at the first return of the sleep
\* at which the elapsed time is at least the grace period: never earlier,
\* possibly later.  sio.disconnect is then called, in registry order, for
\* the ids registered at that moment (the N ids among them) and for no
\* other id, at most once each; exactly once each when the sequence
\* reaches Terminated.
C1_ForceAtFirstExpiredPoll ==
    StragglersStay =>
        /\ force_entered_at = NoneTime =>
              /\ lpc = "sleeping"
              /\ Elapsed(lwake - POLL_INTERVAL) < MAX_GRACE_PERIOD
        /\ force_entered_at # NoneTime =>
              /\ Elapsed(force_entered_at) >= MAX_GRACE_PERIOD
              /\ Range(sio_disconnects \o pending) = RegisteredAfter(force_mark)
              /\ AtShutdown \subseteq RegisteredAfter(force_mark)
              /\ NoDuplicates(sio_disconnects \o pending)
        /\ Terminated => pending = <<>>

\* two stragglers were force-disconnected after a poll that returned late
C1_Witness ==
    /\ StragglersStay
    /\ lpc = "done"
    /\ Cardinality(AtShutdown) = 2
    /\ Len(sio_disconnects) = 2
    /\ Elapsed(force_entered_at) > MAX_GRACE_PERIOD

\* ---------------------------------------------------------------- C2
\* shutdown began, no connect arrived since, and every connection registered
\* at that moment disconnected by itself before the grace period expired
AllLeftInTime ==
    /\ shutdown_requested
    /\ \A i \in SinceShutdown : events[i].op # "connect"
    /\ \A s \in AtShutdown : \E i \in SinceShutdown :
          Voluntary(events[i]) /\ events[i].sid = s /\ ~events[i].expired

\* C2: when every connection registered at shutdown (N >= 0) disconnects
\* by itself before the deadline and no connect arrives, the force branch
\* is never entered and sio.disconnect is never called; the lifespan is
\* draining or Terminated, the poll that follows ends the drain in
\* Terminated by the graceful branch, and Terminated is reached unless a
\* new connect arrives first.
C2_GracefulDrain ==
    /\ [](AllLeftInTime =>
            /\ force_entered_at = NoneTime
            /\ sio_disconnects = <<>>
            /\ lpc \in {"sleeping", "await_bg", "done"})
    /\ [][(AllLeftInTime /\ lpc = "sleeping" /\ lpc' # lpc) => lpc' = "await_bg"]_vars
    /\ AllLeftInTime ~> (Terminated \/ ~AllLeftInTime)

\* a connection registered at shutdown left during the drain, and the
\* lifespan completed
C2_Witness ==
    /\ AllLeftInTime
    /\ AtShutdown # {}
    /\ lpc = "done"

C4_Claim == lpc # "raised"

\* ---------------------------------------------------------------- C5
\* the "notification" emits, in order
Notifs == SelectSeq(emits, LAMBDA e : e.event = "notification")

\* this step initiates a "notification" emit
NotificationEmitted ==
    /\ Len(emits') = Len(emits) + 1
    /\ emits'[Len(emits')].event = "notification"

\* C5: a "notification" emit is initiated only in a state where the
\* registry is non-empty and shutdown_requested is false, and the step that
\* initiates it does not set the flag; a broadcaster that takes its first
\* step while shutdown_requested is true ends without emitting anything.
C5_NoEmitWhenEmptyOrShutdown ==
    [][/\ NotificationEmitted =>
            /\ active_clients # <<>>
            /\ ~shutdown_requested
            /\ ~shutdown_requested'
       /\ (bpc = "created" /\ shutdown_requested /\ bpc' # bpc) =>
            /\ bpc' \in {"returned", "cancelled"}
            /\ emits' = emits]_vars

\* the broadcaster took its first step during shutdown, with a client
\* registered, and returned without ever sleeping or emitting
C5_Witness ==
    /\ bpc = "returned"
    /\ bwake = NoneTime
    /\ active_clients # <<>>
    /\ Notifs = <<>>

\* ---------------------------------------------------------------- C6
\* this step is one pass of the broadcaster loop
BroadcasterTick ==
    /\ bpc \in {"created", "sleeping"}
    /\ bpc' \in {"returned", "emitting", "sleeping"}
    /\ bpc' # bpc \/ bwake' # bwake

\* C6: a pass of the broadcaster loop made while shutdown_requested is
\* false and the registry is non-empty emits exactly one notification; a
\* pass made with the registry empty emits none and leaves the counter; the
\* k-th notification emitted carries id k, and the counter is the number of
\* notifications emitted.
C6_OnePerTickIdsFromOne ==
    /\ [](\A k \in DOMAIN Notifs : Notifs[k].data.id = k)
    /\ [](counter = Len(Notifs))
    /\ [][(BroadcasterTick /\ ~shutdown_requested /\ active_clients # <<>>) =>
            /\ Len(emits') = Len(emits) + 1
            /\ Len(Notifs') = Len(Notifs) + 1]_vars
    /\ [][(BroadcasterTick /\ active_clients = <<>>) =>
            emits' = emits /\ counter' = counter]_vars

\* two notifications were emitted
C6_Witness == Len(Notifs) = 2 /\ Notifs[2].data.id = 2

\* ---------------------------------------------------------------- C7
\* numbers of handler invocations of each kind
ConnectEvents == {i \in DOMAIN events : events[i].op = "connect"}
NewConnectEvents == {i \in ConnectEvents : ~events[i].present}
PresentDisconnectEvents ==
    {i \in DOMAIN events : events[i].op = "disconnect" /\ events[i].present}

\* C7 as claimed: the registry size is the number of connect events minus
\* the number of disconnect events whose id was present.
C7_Original ==
    Len(active_clients) = Cardinality(ConnectEvents) - Cardinality(PresentDisconnectEvents)

\* C7 amended: the registry size is the number of connect events whose id
\* was absent when the connect arrived, minus the number of disconnect
\* events whose id was present when the disconnect arrived; it is never
\* negative, and no id is registered twice.
C7_SizeCountsNewConnects ==
    /\ Len(active_clients) =
         Cardinality(NewConnectEvents) - Cardinality(PresentDisconnectEvents)
    /\ Cardinality(NewConnectEvents) >= Cardinality(PresentDisconnectEvents)
    /\ Cardinality(Keys(active_clients)) = Len(active_clients)

\* a connect was repeated for a registered id and a disconnect arrived for
\* an absent id
C7_Witness ==
    /\ \E i \in ConnectEvents : events[i].present
    /\ \E i \in DOMAIN events : events[i].op = "disconnect" /\ ~events[i].present
    /\ Len(active_clients) = 1

\* ---------------------------------------------------------------- C8
\* the "welcome" emits, in order
Welcomes == SelectSeq(emits, LAMBDA e : e.event = "welcome")

\* this step handles a connect event
ConnectHandled ==
    /\ Len(events') = Len(events) + 1
    /\ events'[Len(events')].op = "connect"

\* C8: the number of welcome emits always equals the number of connect
\* events handled; a step that handles a connect makes exactly one emit, a
\* welcome, and no step other than a connect adds a welcome.
C8_OneWelcomePerConnect ==
    /\ [](Len(Welcomes) = Cardinality(ConnectEvents))
    /\ [][ConnectHandled =>
            /\ Len(emits') = Len(emits) + 1
            /\ emits'[Len(emits')].event = "welcome"
            /\ SubSeq(emits', 1, Len(emits)) = emits]_vars
    /\ [][Welcomes' # Welcomes => ConnectHandled]_vars

\* two connects were welcomed, one of them during shutdown
C8_Witness ==
    /\ Len(Welcomes) = 2
    /\ \E i \in SinceShutdown : events[i].op = "connect"

\* ---------------------------------------------------------------- C9
\* the connect events, in order
Connects == SelectSeq(events, LAMBDA e : e.op = "connect")

\* C9 as claimed: the welcome caused by connect(sid) reaches no connection
\* other than sid.
C9_Claim ==
    \A k \in DOMAIN Welcomes :
        k \in DOMAIN Connects => Welcomes[k].rcpt \subseteq {Connects[k].sid}

\* ---------------------------------------------------------------- C10
\* this step handles a message event
MessageHandled ==
    /\ Len(events') = Len(events) + 1
    /\ events'[Len(events')].op = "message"

\* the run so far is connect(s1), message(s1, p1), disconnect(s1), from an
\* empty registry
Scenario ==
    /\ Len(events) = 3
    /\ events[1].op = "connect" /\ events[1].sid = "s1" /\ ~events[1].present
    /\ events[2].op = "message" /\ events[2].sid = "s1" /\ events[2].data = "p1"
    /\ events[3].op = "disconnect" /\ events[3].sid = "s1"

\* C10: a message(sid, data) event makes exactly one emit, a "message"
\* with payload {from: sid, data: data} and no target, so that it reaches
\* every registered connection, and it changes neither the registry nor the
\* shutdown state; after connect(s1), message(s1, p1), disconnect(s1) the
\* registry is empty and the one message emitted is {from: s1, data: p1}.
C10_MessageEcho ==
    /\ [][MessageHandled =>
            LET e == events'[Len(events')]
                m == emits'[Len(emits')]
            IN  /\ Len(emits') = Len(emits) + 1
                /\ SubSeq(emits', 1, Len(emits)) = emits
                /\ m.event = "message"
                /\ m.data = [from |-> e.sid, data |-> e.data]
                /\ m.to = NoTarget
                /\ m.rcpt = Keys(active_clients)
                /\ UNCHANGED <<active_clients, shutdown_requested,
                               shutdown_start_time, lpc>>]_vars
    /\ [](Scenario =>
            /\ Len(active_clients) = 0
            /\ \E i \in DOMAIN emits :
                 /\ emits[i].event = "message"
                 /\ emits[i].data = [from |-> "s1", data |-> "p1"]
                 /\ \A j \in DOMAIN emits : emits[j].event = "message" => j = i)

\* the scenario has run
C10_Witness == Scenario /\ Len(emits) >= 2

\* ---------------------------------------------------------------- C11
\* C11: the lifespan completes only from `await bg_task`, which it enters
\* (on the graceful and on the forced path alike) by calling
\* bg_task.cancel(): the cancellation is requested unless the task is
\* already over.  When the lifespan has completed the task is over, no
\* cancellation is outstanding, and a delivered cancellation has not made
\* the lifespan raise.  While the application is starting or running the
\* task is neither cancelled nor awaited.
C11_CancelledThenAwaited ==
    /\ [][(lpc' = "await_bg" /\ lpc # "await_bg") => (cancel_requested' <=> ~BroadcasterOver)]_vars
    /\ [][(lpc' = "done" /\ lpc # "done") => (lpc = "await_bg" /\ BroadcasterOver)]_vars
    /\ [](lpc = "done" => (BroadcasterOver /\ ~cancel_requested))
    /\ [](bpc = "cancelled" => lpc \in {"await_bg", "done"})
    /\ [](lpc \in {"init", "running"} => (~cancel_requested /\ bpc # "cancelled"))

\* the lifespan completed on the forced path after the cancellation was
\* delivered to the sleeping broadcaster
C11_Witness ==
    /\ lpc = "done"
    /\ bpc = "cancelled"
    /\ sio_disconnects # <<>>

\* ---------------------------------------------------------------- C12
\* C12: in every reachable state shutdown_start_time is set exactly when
\* shutdown_requested is true.  The flag starts false and stays false
\* while the application starts and runs; it changes only at the shutdown
\* trigger, which sets it to true and records the current clock reading
\* in the same step; once true the flag is never reset and the recorded
\* start time is never overwritten.
C12_StartTimeIffFlag ==
    /\ [](shutdown_requested \in BOOLEAN)
    /\ []((shutdown_start_time # NoneTime) <=> shutdown_requested)
    /\ [](lpc \in {"init", "running"} => ~shutdown_requested)
    /\ [][shutdown_requested' # shutdown_requested
            => (lpc = "running" /\ shutdown_requested' /\ shutdown_start_time' = now)]_vars
    /\ [][shutdown_requested
            => (shutdown_requested' /\ shutdown_start_time' = shutdown_start_time)]_vars

\* the drain has polled at a later clock reading and has run to
\* completion; the recorded start time is still the earlier one
C12_Witness ==
    /\ shutdown_requested
    /\ lpc = "done"
    /\ shutdown_start_time # NoneTime
    /\ now > shutdown_start_time

\* ---------------------------------------------------------------- C13
\* C13 as claimed: once shutdown has begun the drain loop terminates and
\* Terminated is reached whatever the clients do, and the loop does not go
\* back to sleep at a poll at which the elapsed time since the start of
\* the shutdown is at least the grace period.
C13_Claim ==
    /\ shutdown_requested ~> Terminated
    /\ [][(lpc = "sleeping" /\ lpc' = "sleeping" /\ lwake' # lwake)
            => Elapsed(now') < MAX_GRACE_PERIOD]_vars

\* ---------------------------------------------------------------- C14
\* this step runs the disconnect handler
DisconnectHandled ==
    /\ Len(events') = Len(events) + 1
    /\ events'[Len(events')].op = "disconnect"

\* C14: a disconnect(sid) for a sid that is not registered leaves the
\* registry, the shutdown state, the lifespan's position and the emits
\* unchanged, and raises nothing; a disconnect for a registered sid removes
\* that sid's entry and leaves every other entry, and their order, as they
\* were.  No disconnect emits anything or changes the shutdown state.
C14_DisconnectAbsentIsNoOp ==
    [][DisconnectHandled =>
         LET e == events'[Len(events')]
         IN  /\ e.present <=> Has(active_clients, e.sid)
             /\ ~e.present =>
                   /\ ~e.forced
                   /\ active_clients' = active_clients
                   /\ UNCHANGED <<lpc, remaining, pending, sio_disconnects>>
             /\ e.present =>
                   /\ active_clients' =
                        SelectSeq(active_clients, LAMBDA c : c.sid # e.sid)
                   /\ Len(active_clients') = Len(active_clients) - 1
             /\ ~Has(active_clients', e.sid)
             /\ lpc' # "raised"
             /\ UNCHANGED <<emits, shutdown_requested, shutdown_start_time>>]_vars

\* during the drain a disconnect arrived for a sid that was never
\* registered and left the one registered client in place; that client was
\* removed later, by the handler run for its forced disconnect
C14_Witness ==
    /\ Len(events) = 3
    /\ events[1].op = "connect"
    /\ events[2].op = "disconnect" /\ ~events[2].present /\ shutdown_mark = 1
    /\ events[3].op = "disconnect" /\ events[3].present /\ events[3].sid = events[1].sid
    /\ active_clients = <<>>

\* ---------------------------------------------------------------- C15
\* C15: a connect(sid) for a registered sid raises nothing, leaves the
\* registered ids, their order and the size of the registry unchanged, and
\* replaces that sid's timestamp by the current clock reading, leaving
\* every other entry alone; a connect for an absent sid appends exactly one
\* entry, for that sid, stamped with the current clock reading.  Storing
\* the same sid twice gives the same key set as storing it once.
C15_ConnectIdempotentOnKeys ==
    /\ [][ConnectHandled =>
            LET e == events'[Len(events')]
            IN  /\ e.present <=> Has(active_clients, e.sid)
                /\ Keys(active_clients') = Keys(active_clients) \cup {e.sid}
                /\ e.present =>
                      /\ Keys(active_clients') = Keys(active_clients)
                      /\ Len(active_clients') = Len(active_clients)
                      /\ KeyList(active_clients') = KeyList(active_clients)
                      /\ \A i \in DOMAIN active_clients :
                            active_clients'[i] =
                               IF active_clients[i].sid = e.sid
                               THEN [sid |-> e.sid, ts |-> now]
                               ELSE active_clients[i]
                /\ ~e.present =>
                      active_clients' = Append(active_clients, [sid |-> e.sid, ts |-> now])
                /\ lpc' = lpc]_vars
    /\ [](\A s \in Sids :
            LET once == SetItem(active_clients, s, now)
            IN  /\ Keys(SetItem(once, s, now)) = Keys(once)
                /\ Len(SetItem(once, s, now)) = Len(once))

\* two clients are registered and the one registered first has connected
\* again later: its timestamp is now the newer one
C15_Witness ==
    /\ Len(active_clients) = 2
    /\ active_clients[1].ts > active_clients[2].ts
    /\ \E i \in ConnectEvents : events[i].present /\ events[i].sid = active_clients[1].sid

\* ---------------------------------------------------------------- C16
\* C16: sio.disconnect is called only from the force branch, one call per
\* step, after shutdown has begun and with the elapsed time since the
\* start of the shutdown at least the grace period.  The force branch is
\* entered only from the drain loop, at a poll that finds the grace period
\* elapsed and the registry non-empty, and it takes the ids registered at
\* that moment.  No disconnect handler runs on behalf of sio.disconnect
\* before the grace period has elapsed.
C16_ForceOnlyAfterGrace ==
    /\ [][sio_disconnects' # sio_disconnects =>
            /\ lpc = "force"
            /\ shutdown_requested
            /\ Elapsed(now) >= MAX_GRACE_PERIOD
            /\ sio_disconnects' = Append(sio_disconnects, Head(pending))]_vars
    /\ [][(lpc' = "force" /\ lpc # "force") =>
            /\ lpc = "sleeping"
            /\ shutdown_requested
            /\ Elapsed(now') >= MAX_GRACE_PERIOD
            /\ active_clients # <<>>
            /\ pending' = KeyList(active_clients)]_vars
    /\ [](lpc = "force" => Expired)
    /\ [](sio_disconnects # <<>> =>
            /\ force_entered_at # NoneTime
            /\ Elapsed(force_entered_at) >= MAX_GRACE_PERIOD)
    /\ [](~shutdown_requested => (sio_disconnects = <<>> /\ pending = <<>>))
    /\ [](\A i \in DOMAIN events : events[i].forced => events[i].expired)

\* the force branch was entered by a poll made exactly at the expiry and
\* has force-disconnected the first of two clients
C16_Witness ==
    /\ lpc = "force"
    /\ Len(sio_disconnects) = 1
    /\ pending # <<>>
    /\ Elapsed(force_entered_at) = MAX_GRACE_PERIOD

\* ---------------------------------------------------------------- C17
\* C17: once shutdown_requested is true the broadcaster task comes to an
\* end, whether or not a cancellation is ever requested: the first pass
\* of its loop made with the flag true returns; a broadcaster asleep with
\* the flag true does not start another sleep; no notification is emitted
\* from then on; and a task that has ended stays as it ended.
C17_BroadcasterStopsOnFlag ==
    /\ shutdown_requested ~> BroadcasterOver
    /\ [][(shutdown_requested /\ BroadcasterTick) => bpc' = "returned"]_vars
    /\ [][(shutdown_requested /\ bpc = "sleeping") =>
            (bwake' = bwake /\ bpc' \in {"sleeping", "returned", "cancelled"})]_vars
    /\ [][shutdown_requested => Notifs' = Notifs]_vars
    /\ [][BroadcasterOver => (bpc' = bpc /\ counter' = counter)]_vars

\* the broadcaster emitted while the application ran, slept, and after its
\* sleep found the flag set and returned; the lifespan is still draining
\* and has requested no cancellation
C17_Witness ==
    /\ bpc = "returned"
    /\ lpc = "sleeping"
    /\ ~cancel_requested
    /\ Notifs # <<>>

\* ---------------------------------------------------------------- C18
\* this step is a step of the running broadcaster task: a pass of its
\* loop, the return of its emit, its return or its cancellation
BroadcasterActs ==
    /\ bpc # "none"
    /\ bpc' # bpc \/ bwake' # bwake \/ counter' # counter

\* C18: no step of the broadcaster changes the registry, the shutdown
\* flag, the shutdown start time, the lifespan's position or the record of
\* handler invocations; the counter is changed by passes of the
\* broadcaster loop only, and all a broadcaster step adds to the emits is
\* one notification.
C18_BroadcasterFrame ==
    /\ [][BroadcasterActs =>
            /\ UNCHANGED <<active_clients, shutdown_requested, shutdown_start_time>>
            /\ UNCHANGED <<remaining, lpc, lwake, pending, sio_disconnects, events>>
            /\ emits' = emits \/ (NotificationEmitted /\ SubSeq(emits', 1, Len(emits)) = emits)]_vars
    /\ [][counter' # counter => (BroadcasterTick /\ counter' = counter + 1)]_vars

\* the broadcaster has emitted twice to two registered clients and sleeps
C18_Witness ==
    /\ counter = 2
    /\ bpc = "sleeping"
    /\ Len(active_clients) = 2

\* ---------------------------------------------------------------- C19
\* C19 as claimed: whenever the shutdown sequence reaches Terminated the
\* registry is empty, also when connects and disconnects are handled
\* while the drain loop sleeps or while a sio.disconnect is awaited in the
\* force branch, every successful sio.disconnect running the disconnect
\* handler.
C19_Claim ==
    [][(lpc' \in {"await_bg", "done"} /\ lpc \notin {"await_bg", "done"})
         => active_clients' = <<>>]_vars

\* ---------------------------------------------------------------- C20
\* this step is the return of the drain loop's sleep
DrainPoll ==
    /\ lpc = "sleeping"
    /\ lpc' # lpc \/ lwake' # lwake

\* C20: whatever the shutdown flag, a connect(sid) leaves sid registered
\* with the current clock reading, registers and removes nobody else,
\* emits one welcome that reaches every registered connection, and changes
\* neither the shutdown state nor the lifespan's position.  A drain poll
\* counts whoever is registered when it is made: with a non-empty registry
\* and the grace period not elapsed it sleeps again, with a non-empty
\* registry and the grace period elapsed it enters the force branch, and
\* only with an empty registry does it end the drain gracefully.
C20_ConnectDuringShutdown ==
    /\ [][ConnectHandled =>
            LET e == events'[Len(events')]
                w == emits'[Len(emits')]
            IN  /\ Keys(active_clients') = Keys(active_clients) \cup {e.sid}
                /\ \E i \in DOMAIN active_clients' :
                      active_clients'[i] = [sid |-> e.sid, ts |-> now]
                /\ \A i \in DOMAIN active_clients :
                      active_clients[i].sid # e.sid =>
                         \E j \in DOMAIN active_clients' : active_clients'[j] = active_clients[i]
                /\ Len(emits') = Len(emits) + 1
                /\ w.event = "welcome"
                /\ w.rcpt = Keys(active_clients')
                /\ UNCHANGED <<shutdown_requested, shutdown_start_time, remaining,
                               lpc, lwake, pending, cancel_requested>>]_vars
    /\ [][DrainPoll =>
            /\ (active_clients # <<>> /\ Elapsed(now') < MAX_GRACE_PERIOD) =>
                  (lpc' = "sleeping" /\ lwake' = now' + POLL_INTERVAL)
            /\ (active_clients # <<>> /\ Elapsed(now') >= MAX_GRACE_PERIOD) =>
                  (lpc' = "force" /\ pending' = KeyList(active_clients))
            /\ active_clients = <<>> => lpc' = "await_bg"]_vars

\* shutdown began with one client and a second one connected during the
\* drain; the polls that followed counted both, and when the grace period
\* expired the late client was force-disconnected with the first
C20_Witness ==
    /\ lpc = "done"
    /\ Len(events) = 4
    /\ shutdown_mark = 1
    /\ events[2].op = "connect" /\ ~events[2].present /\ ~events[2].expired
    /\ events[2].sid \in Range(sio_disconnects)
    /\ events[4].forced /\ events[4].sid = events[2].sid
    /\ active_clients = <<>>
====
